---- MODULE Spec2Model ----
(***************************************************************************)
(* Steam Axia dashboard (src/app.py): the cached CSV loader load_data and  *)
(* the render pass main(), run by concurrent viewers against one static    *)
(* source file.                                                            *)
(***************************************************************************)
EXTENDS Integers, Sequences, FiniteSets, TLC

(* ---------------------------- bounds ---------------------------------- *)
\* rows in the source file
MaxRows == 2
\* calendar dates are 1..MaxDate
MaxDate == 3
\* instants per calendar day (times of day are 0..DayLen-1)
DayLen == 2
\* temperature readings are 0..MaxTemp
MaxTemp == 1

(* ---------------------------- names ----------------------------------- *)
\* A column name is a sequence of tokens; " " is a whitespace character.
Whitespace == {" "}

DATA_PATH == "data/df_clean.csv"

TimestampCol == <<"Timestamp">>
StackTempCol == <<"StackTempMbus">>
SteamTempCol == <<"SteamTempMbus">>
ScalingCol == <<"Scaling_Delta">>
damper_col == <<"Air", " ", "flow", " ", "%">>
SteamPrCol == <<"SteamPrMbus">>
StackO2Col == <<"StackO2Mbus">>

\* the source header spellings the model draws from, in file order
HeaderPool ==
  << <<" ", "Timestamp", " ">>,
     <<"Timestamp">>,
     <<"Air", " ", "flow", " ", "%", " ">>,
     <<"StackTempMbus">>,
     <<" ", "SteamTempMbus">>,
     <<"Scaling_Delta">>,
     <<"SteamPrMbus">>,
     <<"StackO2Mbus">> >>

(* ------------------------- str.strip ---------------------------------- *)
RECURSIVE lstrip(_)
lstrip(s) ==
  IF s # <<>> /\ Head(s) \in Whitespace THEN lstrip(Tail(s)) ELSE s

RECURSIVE rstrip(_)
rstrip(s) ==
  IF s # <<>> /\ s[Len(s)] \in Whitespace
  THEN rstrip(SubSeq(s, 1, Len(s) - 1))
  ELSE s

strip(s) == rstrip(lstrip(s))

(* ------------------------- DataFrame ---------------------------------- *)
\* A frame is its column labels and its rows; a row keeps its index label
\* (the RangeIndex position given by read_csv) and one cell per column.
EmptyDF == [columns |-> <<>>, rows |-> <<>>]

\* DataFrame.empty: any axis of length 0
IsEmpty(df) == Len(df.columns) = 0 \/ Len(df.rows) = 0

\* `name in df.columns`
HasCol(df, name) == \E i \in 1..Len(df.columns) : df.columns[i] = name

ColCount(df, name) ==
  Cardinality({i \in 1..Len(df.columns) : df.columns[i] = name})

\* position of a uniquely named column
ColPos(df, name) == CHOOSE i \in 1..Len(df.columns) : df.columns[i] = name

\* df[name] of row r
Cell(df, r, name) == df.rows[r].cells[ColPos(df, name)]

\* df[name] = values (replaces the column in place, or appends it)
SetCol(df, name, values) ==
  IF HasCol(df, name)
  THEN [df EXCEPT !.rows =
          [r \in 1..Len(df.rows) |->
             [df.rows[r] EXCEPT !.cells[ColPos(df, name)] = values[r]]]]
  ELSE [columns |-> Append(df.columns, name),
        rows |-> [r \in 1..Len(df.rows) |->
                    [df.rows[r] EXCEPT !.cells = Append(@, values[r])]]]

(* ------------------------- source file -------------------------------- *)
\* A raw Timestamp cell is the text "<date> <time of day>", held as <<d, t>>.
\* pd.to_datetime raises on a time of day that does not exist.
CanParse(raw) == raw[1] >= 1 /\ raw[2] \in 0..(DayLen - 1)

\* pd.to_datetime of one cell: the instant, counted from the epoch
to_datetime(raw) == raw[1] * DayLen + raw[2]

\* Timestamp.date() / Series.dt.date: the instant truncated to its calendar
\* date
DateOf(ts) == ts \div DayLen

\* A raw numeric cell is the text of one number, held as <<n>>.
IsNumeric(raw) == Len(raw) = 1

\* pd.read_csv: the first line is the header, each further line a row
\* labelled by its position; a column of numbers is converted, any other
\* column keeps its text; a file without a header line raises
read_csv_raises(f) == Len(f.header) = 0

NumericColumn(f, k) == \A r \in 1..Len(f.rows) : IsNumeric(f.rows[r][k])

read_csv(f) ==
  [columns |-> f.header,
   rows |-> [r \in 1..Len(f.rows) |->
               [idx |-> r - 1,
                cells |-> [k \in 1..Len(f.header) |->
                             IF NumericColumn(f, k)
                             THEN f.rows[r][k][1]
                             ELSE f.rows[r][k]]]]]

(* ------------------------- load_data ---------------------------------- *)
NotFoundMsg == "error: File not found at path"
LoadErrorMsg == "error: Error loading data"

\* lines 21-23
SourceMissing == [df |-> EmptyDF, msgs |-> {NotFoundMsg}]

\* lines 39-41: whatever was built so far is dropped
OnLoadErrorKeep(partial) == [df |-> partial, msgs |-> {}]
OnLoadError(partial) == [df |-> EmptyDF, msgs |-> {LoadErrorMsg}]

\* line 28
StripNoLeading(df) ==
  [df EXCEPT !.columns = [i \in 1..Len(df.columns) |-> rstrip(df.columns[i])]]
StripColumns(df) ==
  [df EXCEPT !.columns = [i \in 1..Len(df.columns) |-> strip(df.columns[i])]]

\* line 32 raises: to_datetime of a frame with duplicate column labels, or
\* of a cell that does not parse
TimestampRaises(df) ==
  \/ ColCount(df, TimestampCol) > 1
  \/ \E r \in 1..Len(df.rows) : ~CanParse(Cell(df, r, TimestampCol))

\* lines 31-32
ConvertTimestamp(df) ==
  IF HasCol(df, TimestampCol)
  THEN SetCol(df, TimestampCol,
              [r \in 1..Len(df.rows) |-> to_datetime(Cell(df, r, TimestampCol))])
  ELSE df

\* line 36, one row
DeltaSwapped(stack, steam) == steam - stack
Delta(stack, steam) == stack - steam

\* lines 35-36
AddScalingDelta(df) ==
  IF HasCol(df, StackTempCol) /\ HasCol(df, SteamTempCol)
  THEN SetCol(df, ScalingCol,
              [r \in 1..Len(df.rows) |->
                 Delta(Cell(df, r, StackTempCol), Cell(df, r, SteamTempCol))])
  ELSE df

\* lines 19-41, the body under the cache decorator: the table returned and
\* the messages written while it ran
load_data_body(f) ==
  IF ~f.exists THEN SourceMissing
  ELSE IF read_csv_raises(f) THEN OnLoadError(EmptyDF)
  ELSE LET df1 == StripColumns(read_csv(f))
       IN IF HasCol(df1, TimestampCol) /\ TimestampRaises(df1)
          THEN OnLoadError(df1)
          ELSE [df |-> AddScalingDelta(ConvertTimestamp(df1)), msgs |-> {}]

(* ------------------------- main --------------------------------------- *)
InfoMsg == "info: No data available for the selected date."
WarningMsg == "warning: Column 'Air flow %' not found"
KeyErrorMsg == "exception: KeyError 'Timestamp'"

\* the date picker holds no selection until the operator makes one
Unset == 0

\* what one pass of main() has shown and done so far
NewPass ==
  [steps |-> <<>>, msgs |-> {}, min_date |-> Unset, max_date |-> Unset,
   selected |-> Unset, filtered |-> EmptyDF, series |-> {},
   outcome |-> "running"]

\* df['Timestamp'] as the set of its values
TimestampValues(df) ==
  {Cell(df, r, TimestampCol) : r \in 1..Len(df.rows)}

\* lines 61-62
SeriesMin(S) == CHOOSE m \in S : \A x \in S : m <= x
SeriesMax(S) == CHOOSE m \in S : \A x \in S : m >= x
min_date(df) == DateOf(SeriesMin(TimestampValues(df)))
max_date(df) == DateOf(SeriesMax(TimestampValues(df)))

\* lines 64-69: the picker shows `value` until the operator has chosen, and
\* offers only the dates from min_value to max_value
date_input(w, value) == IF w = Unset THEN value ELSE w
SelectableAny(lo, hi) == 1..(MaxDate + 1)
Selectable(lo, hi) == lo..hi

\* line 71, one row of the mask
maskExact(df, row, selected_date) ==
  row.cells[ColPos(df, TimestampCol)] = selected_date * DayLen
mask(df, row, selected_date) ==
  DateOf(row.cells[ColPos(df, TimestampCol)]) = selected_date

\* lines 60-74: df.loc[mask] keeps the selected rows, in order, with their
\* index labels; without a Timestamp column df_filtered is df
df_filtered_or_none(df, selected_date) ==
  IF HasCol(df, TimestampCol)
  THEN [df EXCEPT !.rows =
          SelectSeq(df.rows, LAMBDA row : mask(df, row, selected_date))]
  ELSE EmptyDF
df_filtered(df, selected_date) ==
  IF HasCol(df, TimestampCol)
  THEN [df EXCEPT !.rows =
          SelectSeq(df.rows, LAMBDA row : mask(df, row, selected_date))]
  ELSE df

\* the four traces, in the order lines 93-144 add them
SeriesCols == <<damper_col, ScalingCol, SteamPrCol, StackO2Col>>

PresentSeries(f) ==
  {SeriesCols[i] : i \in {j \in 1..Len(SeriesCols) : HasCol(f, SeriesCols[j])}}

\* lines 98, 114, 126, 138: each trace reads df_filtered['Timestamp'] after
\* checking only its own column
TraceRaises(f) == PresentSeries(f) # {} /\ ~HasCol(f, TimestampCol)

\* lines 80-165
render(p) ==
  LET f == p.filtered
      warn == IF HasCol(f, damper_col) THEN {} ELSE {WarningMsg}
  IN IF TraceRaises(f)
     THEN [p EXCEPT !.steps = Append(@, "figure"),
                    !.msgs = @ \cup warn \cup {KeyErrorMsg},
                    !.outcome = "exception"]
     ELSE [p EXCEPT !.steps = Append(Append(@, "figure"), "plotly_chart"),
                    !.msgs = @ \cup warn,
                    !.series = PresentSeries(f),
                    !.outcome = "chart"]

\* line 76
FilteredEmptyNever(f) == FALSE
FilteredEmpty(f) == IsEmpty(f)

\* lines 76-165
after_filter(p) ==
  IF FilteredEmpty(p.filtered)
  THEN [p EXCEPT !.msgs = @ \cup {InfoMsg}, !.outcome = "info"]
  ELSE render(p)

\* lines 57-74
sidebar(df, w, p) ==
  IF HasCol(df, TimestampCol)
  THEN LET d == date_input(w, min_date(df))
       IN [p EXCEPT !.steps = Append(@, "filter"),
                    !.min_date = min_date(df),
                    !.max_date = max_date(df),
                    !.selected = d,
                    !.filtered = df_filtered(df, d)]
  ELSE [p EXCEPT !.steps = Append(@, "filter"),
                 !.filtered = df_filtered(df, Unset)]

\* lines 51-165: main() from the return of load_data on
main_no_guard(df, w, p) == render([p EXCEPT !.filtered = df])
main_after_load(df, w, p) ==
  IF IsEmpty(df)
  THEN [p EXCEPT !.outcome = "returned"]
  ELSE after_filter(sidebar(df, w, p))

(* ------------------------- inputs ------------------------------------- *)
Dates == 1..MaxDate
Temps == 0..MaxTemp

\* raw Timestamp cells: every date at the first and the last instant of the
\* day, and one text that is no time of day
TsRaw == {<<d, t>> : d \in Dates, t \in {0, DayLen - 1}} \cup {<<1, DayLen>>}

DefaultTs == <<1, DayLen - 1>>
DefaultStack == MaxTemp

PoolIdx == 1..Len(HeaderPool)
IsTsIdx(i) == strip(HeaderPool[i]) = TimestampCol
IsStackIdx(i) == strip(HeaderPool[i]) = StackTempCol
IsSteamIdx(i) == strip(HeaderPool[i]) = SteamTempCol

\* the k-th smallest element of S
Nth(S, k) == CHOOSE i \in S : Cardinality({j \in S : j < i}) = k - 1

\* the file with the pool's columns S, n rows, and the given cells
MkFile(S, n, ts, stack, steam) ==
  [exists |-> TRUE,
   header |-> [k \in 1..Cardinality(S) |-> HeaderPool[Nth(S, k)]],
   rows |-> [r \in 1..n |->
               [k \in 1..Cardinality(S) |->
                  LET i == Nth(S, k)
                  IN IF IsTsIdx(i) THEN ts[r]
                     ELSE IF IsStackIdx(i) THEN <<stack[r]>>
                     ELSE IF IsSteamIdx(i) THEN <<steam[r]>>
                     ELSE <<0>>]]]

NoFile == [exists |-> FALSE, header |-> <<>>, rows |-> <<>>]

\* every subset of the header pool, without rows and with one row of default
\* cells (every other reading is 0)
FilesByHeader ==
  {MkFile(S, n, [r \in 1..n |-> DefaultTs], [r \in 1..n |-> DefaultStack],
          [r \in 1..n |-> 0]) :
     S \in SUBSET PoolIdx, n \in {0, 1}}

\* every choice of Timestamp cells, under a padded Timestamp header next to
\* series columns
TsHeaders == {{1, 3, 4, 5, 7}}
FilesByTimestamp ==
  UNION {{MkFile(S, n, ts, [r \in 1..n |-> DefaultStack],
                 [r \in 1..n |-> 0]) :
            ts \in [1..n -> TsRaw]} : S \in TsHeaders, n \in 1..MaxRows}

\* every choice of temperature readings
TempHeaders == {{4, 5}, {1, 4, 5, 6}}
FilesByTemps ==
  UNION {{MkFile(S, n, [r \in 1..n |-> DefaultTs], st, sm) :
            st \in [1..n -> Temps], sm \in [1..n -> Temps]} :
            S \in TempHeaders, n \in 1..MaxRows}

Files == {NoFile} \cup FilesByHeader \cup FilesByTimestamp \cup FilesByTemps

(* ------------------------- state -------------------------------------- *)
Viewers == {"v1", "v2"}
Paths == {DATA_PATH}
NoOne == "none"

VARIABLES
  fs,        \* fs[path]: the file at path (static during a session)
  cache,     \* st.cache_data's store: cache[path] = [cached, value, msgs]
  lock,      \* lock[path]: the viewer computing the value for path, or NoOne
  computed,  \* computed[path]: how many times load_data's body ran for path
  first,     \* first[path]: what the first run of the body returned
  pc,        \* pc[v]: where viewer v's script run stands
  df,        \* df[v]: what load_data returned to v in this pass
  widget,    \* widget[v]: the date v's picker holds, or Unset
  pass       \* pass[v]: what v's current pass has shown and done

vars == <<fs, cache, lock, computed, first, pc, df, widget, pass>>

Init ==
  /\ fs \in [Paths -> Files]
  /\ cache = [p \in Paths |-> [cached |-> FALSE, value |-> EmptyDF, msgs |-> {}]]
  /\ lock = [p \in Paths |-> NoOne]
  /\ computed = [p \in Paths |-> 0]
  /\ first = [p \in Paths |-> EmptyDF]
  /\ pc = [v \in Viewers |-> "idle"]
  /\ df = [v \in Viewers |-> EmptyDF]
  /\ widget = [v \in Viewers |-> Unset]
  /\ pass = [v \in Viewers |-> NewPass]

(* ------------------------- st.cache_data ------------------------------ *)
\* line 18: a value stored for this path is returned instead of running the
\* body
NeverCached(path) == FALSE
IsCached(path) == cache[path].cached

\* the cached table comes back as a copy, with the messages the body wrote
Returned(v, path) ==
  /\ df' = [df EXCEPT ![v] = cache[path].value]
  /\ pass' = [pass EXCEPT ![v].steps = Append(@, "load"),
                          ![v].msgs = @ \cup cache[path].msgs]

(* ------------------------- actions ------------------------------------ *)
\* a viewer opens the page: a new session, main() starts (lines 44-49)
Open(v) ==
  /\ pc[v] \in {"idle", "done"}
  /\ pc' = [pc EXCEPT ![v] = "call"]
  /\ widget' = [widget EXCEPT ![v] = Unset]
  /\ pass' = [pass EXCEPT ![v] = NewPass]
  /\ UNCHANGED <<fs, cache, lock, computed, first, df>>

\* the operator picks one of the offered dates: the script reruns
ChangeDate(v, d) ==
  /\ pc[v] = "done"
  /\ pass[v].min_date # Unset
  /\ d \in Selectable(pass[v].min_date, pass[v].max_date)
  /\ d # widget[v]
  /\ pc' = [pc EXCEPT ![v] = "call"]
  /\ widget' = [widget EXCEPT ![v] = d]
  /\ pass' = [pass EXCEPT ![v] = NewPass]
  /\ UNCHANGED <<fs, cache, lock, computed, first, df>>

\* load_data(DATA_PATH), cache hit
CallHit(v) ==
  /\ pc[v] = "call"
  /\ IsCached(DATA_PATH)
  /\ Returned(v, DATA_PATH)
  /\ pc' = [pc EXCEPT ![v] = "loaded"]
  /\ UNCHANGED <<fs, cache, lock, computed, first, widget>>

\* load_data(DATA_PATH), cache miss: wait for the value's compute lock
CallMiss(v) ==
  /\ pc[v] = "call"
  /\ ~IsCached(DATA_PATH)
  /\ pc' = [pc EXCEPT ![v] = "wait"]
  /\ UNCHANGED <<fs, cache, lock, computed, first, df, widget, pass>>

Acquire(v) ==
  /\ pc[v] = "wait"
  /\ lock[DATA_PATH] = NoOne
  /\ lock' = [lock EXCEPT ![DATA_PATH] = v]
  /\ pc' = [pc EXCEPT ![v] = "locked"]
  /\ UNCHANGED <<fs, cache, computed, first, df, widget, pass>>

\* under the lock: another viewer stored the value meanwhile
LockedHit(v) ==
  /\ pc[v] = "locked"
  /\ IsCached(DATA_PATH)
  /\ Returned(v, DATA_PATH)
  /\ lock' = [lock EXCEPT ![DATA_PATH] = NoOne]
  /\ pc' = [pc EXCEPT ![v] = "loaded"]
  /\ UNCHANGED <<fs, cache, computed, first, widget>>

\* under the lock: run the body (lines 19-41), store its result and messages
Compute(v) ==
  /\ pc[v] = "locked"
  /\ ~IsCached(DATA_PATH)
  /\ LET res == load_data_body(fs[DATA_PATH])
     IN /\ cache' = [cache EXCEPT ![DATA_PATH] =
                       [cached |-> TRUE, value |-> res.df, msgs |-> res.msgs]]
        /\ df' = [df EXCEPT ![v] = res.df]
        /\ pass' = [pass EXCEPT ![v].steps = Append(@, "load"),
                                ![v].msgs = @ \cup res.msgs]
        /\ first' = IF computed[DATA_PATH] = 0
                    THEN [first EXCEPT ![DATA_PATH] = res.df]
                    ELSE first
  /\ computed' = [computed EXCEPT ![DATA_PATH] = @ + 1]
  /\ lock' = [lock EXCEPT ![DATA_PATH] = NoOne]
  /\ pc' = [pc EXCEPT ![v] = "loaded"]
  /\ UNCHANGED <<fs, widget>>

\* the rest of main() (lines 51-165)
Main(v) ==
  /\ pc[v] = "loaded"
  /\ pass' = [pass EXCEPT ![v] = main_after_load(df[v], widget[v], pass[v])]
  /\ pc' = [pc EXCEPT ![v] = "done"]
  /\ UNCHANGED <<fs, cache, lock, computed, first, df, widget>>

Next ==
  \E v \in Viewers :
    \/ Open(v)
    \/ \E d \in Dates : ChangeDate(v, d)
    \/ CallHit(v)
    \/ CallMiss(v)
    \/ Acquire(v)
    \/ LockedHit(v)
    \/ Compute(v)
    \/ Main(v)

Spec == Init /\ [][Next]_vars

(* ------------------------- properties --------------------------------- *)
\* viewer v holds the table load_data returned to its current pass
HasLoaded(v) == pc[v] \in {"loaded", "done"}

SourceFile == fs[DATA_PATH]

\* the positions of the source header that read `name` once surrounding
\* whitespace is ignored
PaddedAs(h, name) ==
  \E i \in 1..Len(h) : \E j \in i..Len(h) :
    /\ SubSeq(h, i, j) = name
    /\ \A k \in 1..Len(h) : (k < i \/ k > j) => h[k] \in Whitespace

HeaderCols(name) ==
  {k \in 1..Len(SourceFile.header) : PaddedAs(SourceFile.header[k], name)}

\* some cell under a Timestamp header is no date-time
MalformedTimestamp ==
  \E k \in HeaderCols(TimestampCol) : \E r \in 1..Len(SourceFile.rows) :
    LET raw == SourceFile.rows[r][k]
    IN ~(Len(raw) = 2 /\ raw[1] >= 1 /\ raw[2] >= 0 /\ raw[2] < DayLen)

\* a table: every row has one cell per column
IsTable(t) == \A r \in 1..Len(t.rows) : Len(t.rows[r].cells) = Len(t.columns)

\* load_data returned without writing an error
LoadSucceeded(v) ==
  /\ HasLoaded(v)
  /\ NotFoundMsg \notin pass[v].msgs
  /\ LoadErrorMsg \notin pass[v].msgs

\* C1: load_data always returns a table; when the source does not exist or a
\* Timestamp value fails to parse, the table returned is the empty table (no
\* rows, no columns) and an error message has been shown to the operator.
C1_LoadFailureIsEmptyWithDiagnostic ==
  \A v \in Viewers :
    HasLoaded(v) =>
      /\ IsTable(df[v])
      /\ ~SourceFile.exists =>
           /\ df[v] = EmptyDF
           /\ NotFoundMsg \in pass[v].msgs
      /\ (SourceFile.exists /\ MalformedTimestamp) =>
           /\ df[v] = EmptyDF
           /\ LoadErrorMsg \in pass[v].msgs

C1_Witness ==
  \E v \in Viewers :
    /\ pc[v] = "done"
    /\ SourceFile.exists
    /\ MalformedTimestamp
    /\ Len(SourceFile.rows) = MaxRows
    /\ df[v] = EmptyDF
    /\ LoadErrorMsg \in pass[v].msgs

\* a pass that got a non-empty table with a Timestamp column
FilteringPass(v) ==
  /\ pc[v] = "done"
  /\ ~IsEmpty(df[v])
  /\ HasCol(df[v], TimestampCol)

\* the instant ts falls on calendar date d, whatever its time of day
OnDate(ts, d) == d * DayLen <= ts /\ ts < (d + 1) * DayLen

\* f holds exactly the rows of t that fall on date d, in t's order
IsDateFilterOf(f, t, d) ==
  /\ f.columns = t.columns
  /\ \A r \in 1..Len(t.rows) :
       (\E k \in 1..Len(f.rows) : f.rows[k] = t.rows[r])
         <=> OnDate(Cell(t, r, TimestampCol), d)
  /\ \A k \in 1..Len(f.rows) : \E r \in 1..Len(t.rows) : f.rows[k] = t.rows[r]
  /\ \A j, k \in 1..Len(f.rows) : j < k => f.rows[j].idx < f.rows[k].idx

\* C2: for a loaded table with a Timestamp column and any date d, the
\* filtered table holds a row iff the row's Timestamp falls on d (time of day
\* ignored), and keeps the rows in the loaded table's order.
C2_FilterKeepsExactlyTheDate ==
  \A v \in Viewers :
    FilteringPass(v) =>
      /\ IsDateFilterOf(pass[v].filtered, df[v], pass[v].selected)
      /\ \A d \in 1..(MaxDate + 1) :
           IsDateFilterOf(df_filtered(df[v], d), df[v], d)

C2_Witness ==
  \E v \in Viewers :
    /\ FilteringPass(v)
    /\ Len(df[v].rows) = MaxRows
    /\ Len(pass[v].filtered.rows) >= 1
    /\ Len(pass[v].filtered.rows) < Len(df[v].rows)
    /\ pass[v].filtered.rows[1].idx > 0
    /\ ~(\E d \in Dates : pass[v].filtered.rows[1].cells[ColPos(df[v], TimestampCol)] = d * DayLen)

\* the source header, trimmed
TrimmedHeader == {strip(SourceFile.header[k]) : k \in 1..Len(SourceFile.header)}

BothTempsInHeader ==
  StackTempCol \in TrimmedHeader /\ SteamTempCol \in TrimmedHeader

DeltaIsDifference(t) ==
  \A r \in 1..Len(t.rows) :
    Cell(t, r, ScalingCol) = Cell(t, r, StackTempCol) - Cell(t, r, SteamTempCol)

\* C3 as stated: after a successful load, Scaling_Delta is a column iff both
\* StackTempMbus and SteamTempMbus are in the trimmed header, and then every
\* row's value is StackTempMbus minus SteamTempMbus.
C3_DeltaIffBothTemps ==
  \A v \in Viewers :
    LoadSucceeded(v) =>
      /\ HasCol(df[v], ScalingCol) <=> BothTempsInHeader
      /\ HasCol(df[v], ScalingCol) => DeltaIsDifference(df[v])

\* C3 amended: after a successful load, Scaling_Delta is a column iff both
\* temperature columns are in the trimmed header or the trimmed header itself
\* has a Scaling_Delta column; whenever both temperature columns are there,
\* every row's Scaling_Delta is StackTempMbus minus SteamTempMbus.
C3_DeltaIffBothTempsOrSupplied ==
  \A v \in Viewers :
    LoadSucceeded(v) =>
      /\ HasCol(df[v], ScalingCol)
           <=> (BothTempsInHeader \/ ScalingCol \in TrimmedHeader)
      /\ BothTempsInHeader => DeltaIsDifference(df[v])

C3_Witness ==
  \E v \in Viewers :
    /\ LoadSucceeded(v)
    /\ BothTempsInHeader
    /\ Len(df[v].rows) = MaxRows
    /\ HasCol(df[v], ScalingCol)
    /\ Cell(df[v], 1, StackTempCol) # Cell(df[v], 1, SteamTempCol)
    /\ Cell(df[v], 1, ScalingCol) # Cell(df[v], MaxRows, ScalingCol)

\* C4: a pass over a non-empty table never fails because a column is
\* missing, whichever of Timestamp and the four series columns is missing:
\* the pass completes and the chart holds exactly the series whose column is
\* there.
C4_MissingColumnNeverFails ==
  \A v \in Viewers :
    (pc[v] = "done" /\ ~IsEmpty(df[v])) =>
      /\ pass[v].outcome # "exception"
      /\ KeyErrorMsg \notin pass[v].msgs
      /\ pass[v].outcome = "chart" =>
           pass[v].series = {c \in {damper_col, ScalingCol, SteamPrCol, StackO2Col} :
                               HasCol(pass[v].filtered, c)}

\* C5: load_data's body runs at most once for a source location, however the
\* viewers' passes interleave, and every call returns the table that one run
\* produced.
C5_BodyRunsAtMostOnce ==
  \A p \in Paths :
    /\ computed[p] <= 1
    /\ \A v \in Viewers :
         HasLoaded(v) => (computed[p] = 1 /\ df[v] = first[p])

C5_Witness ==
  /\ \A v \in Viewers : pc[v] = "done" /\ pass[v].outcome = "chart"
  /\ widget["v1"] # Unset
  /\ computed[DATA_PATH] = 1

\* C6: in a pass over a non-empty table with a Timestamp column, the date the
\* filter is applied with is no earlier than the earliest and no later than
\* the latest calendar date among the table's Timestamp values.
C6_SelectedDateWithinData ==
  \A v \in Viewers :
    FilteringPass(v) =>
      /\ \E r \in 1..Len(df[v].rows) :
           Cell(df[v], r, TimestampCol) < (pass[v].selected + 1) * DayLen
      /\ \E r \in 1..Len(df[v].rows) :
           Cell(df[v], r, TimestampCol) >= pass[v].selected * DayLen

C6_Witness ==
  \E v \in Viewers :
    /\ FilteringPass(v)
    /\ widget[v] # Unset
    /\ pass[v].selected = widget[v]
    /\ pass[v].selected > pass[v].min_date
    /\ pass[v].selected < pass[v].max_date

\* C7: the no-data-for-this-date message is shown exactly when the loaded
\* table is non-empty and the filtered table is empty; a pass whose loaded
\* table is empty ends without that message.
C7_NoDateDataDistinctFromNoData ==
  \A v \in Viewers :
    pc[v] = "done" =>
      /\ InfoMsg \in pass[v].msgs
           <=> (~IsEmpty(df[v]) /\ IsEmpty(pass[v].filtered))
      /\ IsEmpty(df[v]) =>
           (InfoMsg \notin pass[v].msgs /\ pass[v].outcome = "returned")

C7_Witness ==
  \E v \in Viewers :
    /\ pc[v] = "done"
    /\ ~IsEmpty(df[v])
    /\ IsEmpty(pass[v].filtered)
    /\ InfoMsg \in pass[v].msgs

Recognized ==
  {TimestampCol, damper_col, StackTempCol, SteamTempCol, SteamPrCol, StackO2Col}

Trimmed(name) ==
  name = <<>> \/ (name[1] \notin Whitespace /\ name[Len(name)] \notin Whitespace)

\* C8: after a successful load no column name starts or ends with
\* whitespace; a source header that is a recognized name inside surrounding
\* whitespace is found under the recognized name, its Timestamp cells are
\* parsed, and Scaling_Delta is derived from such temperature columns.
C8_PaddedHeadersAreFound ==
  \A v \in Viewers :
    LoadSucceeded(v) =>
      /\ \A i \in 1..Len(df[v].columns) : Trimmed(df[v].columns[i])
      /\ \A name \in Recognized :
           HeaderCols(name) # {} => HasCol(df[v], name)
      /\ \A k \in HeaderCols(TimestampCol) : \A r \in 1..Len(df[v].rows) :
           Cell(df[v], r, TimestampCol)
             = SourceFile.rows[r][k][1] * DayLen + SourceFile.rows[r][k][2]
      /\ (HeaderCols(StackTempCol) # {} /\ HeaderCols(SteamTempCol) # {}) =>
           /\ HasCol(df[v], ScalingCol)
           /\ \A a \in HeaderCols(StackTempCol) : \A b \in HeaderCols(SteamTempCol) :
                \A r \in 1..Len(df[v].rows) :
                  Cell(df[v], r, ScalingCol)
                    = SourceFile.rows[r][a][1] - SourceFile.rows[r][b][1]

C8_Witness ==
  \E v \in Viewers :
    /\ LoadSucceeded(v)
    /\ Len(df[v].rows) >= 1
    /\ \E k \in HeaderCols(TimestampCol) : SourceFile.header[k] # TimestampCol
    /\ \E k \in HeaderCols(SteamTempCol) : SourceFile.header[k] # SteamTempCol
    /\ \E k \in HeaderCols(damper_col) : SourceFile.header[k] # damper_col
    /\ HeaderCols(StackTempCol) # {}
    /\ HasCol(df[v], ScalingCol)
    /\ pass[v].outcome = "chart"
    /\ damper_col \in pass[v].series

Reached(v, step) == \E i \in 1..Len(pass[v].steps) : pass[v].steps[i] = step

\* C9: filtering never changes the loaded table: at the end of a pass the
\* table the pass loaded and the cached table are still what load_data's
\* body returned; the filtered table's rows are rows of the loaded table, and
\* without a Timestamp column the filtered table is the loaded table.
C9_LoadedTableNotMutated ==
  \A v \in Viewers :
    (pc[v] = "done" /\ ~IsEmpty(df[v])) =>
      /\ df[v] = first[DATA_PATH]
      /\ cache[DATA_PATH].value = first[DATA_PATH]
      /\ pass[v].filtered.columns = df[v].columns
      /\ \A k \in 1..Len(pass[v].filtered.rows) :
           \E r \in 1..Len(df[v].rows) : pass[v].filtered.rows[k] = df[v].rows[r]
      /\ ~HasCol(df[v], TimestampCol) => pass[v].filtered = df[v]

C9_Witness ==
  \E v \in Viewers :
    /\ pc[v] = "done"
    /\ ~IsEmpty(df[v])
    /\ ~HasCol(df[v], TimestampCol)
    /\ Len(df[v].rows) = MaxRows
    /\ pass[v].filtered = df[v]
    /\ Reached(v, "figure")

IsPrefix(a, b) == Len(a) <= Len(b) /\ SubSeq(b, 1, Len(a)) = a

\* C10: a pass goes load, filter, render in that order; the chart is reached
\* only with a non-empty loaded and a non-empty filtered table; an empty
\* loaded table ends the pass before any date selection or filtering, an
\* empty filtered table ends it before any figure is built, neither as an
\* error.
C10_LoadFilterRenderOrder ==
  \A v \in Viewers :
    /\ IsPrefix(pass[v].steps, <<"load", "filter", "figure", "plotly_chart">>)
    /\ Reached(v, "plotly_chart") =>
         (~IsEmpty(df[v]) /\ ~IsEmpty(pass[v].filtered))
    /\ (pc[v] = "done" /\ IsEmpty(df[v])) =>
         /\ pass[v].steps = <<"load">>
         /\ pass[v].selected = Unset
         /\ pass[v].outcome = "returned"
    /\ (pc[v] = "done" /\ ~IsEmpty(df[v]) /\ IsEmpty(pass[v].filtered)) =>
         /\ pass[v].steps = <<"load", "filter">>
         /\ pass[v].outcome = "info"
         /\ KeyErrorMsg \notin pass[v].msgs

C10_Witness ==
  /\ pc["v1"] = "done"
  /\ pass["v1"].steps = <<"load", "filter", "figure", "plotly_chart">>
  /\ pc["v2"] = "done"
  /\ pass["v2"].steps = <<"load", "filter">>

====
